---- MODULE Spec2Model ----
(***************************************************************************)
(* A model of the in-memory user store of main.go: the shared map          *)
(* userCache, the readers-writer mutex cacheMutex that guards it, and the  *)
(* three handlers getUser, createUser and deleteUser, each run by the      *)
(* server on a goroutine of its own.  A handler is a sequence of steps cut *)
(* at the mutex calls and at the map accesses; everything a handler does   *)
(* between two of those is local to its goroutine and belongs to the step  *)
(* before it.                                                              *)
(***************************************************************************)
EXTENDS Integers, Sequences, FiniteSets, TLC

\* Goroutines the server runs handlers on at the same time.
NumProcs == 2
\* Entries the clients let the store grow to: a valid create request is
\* sent only while the entries and the creates under way stay within it.
MaxUsers == 2

Procs == 1..NumProcs

\* Names the clients put in request bodies.
Names == {"Ada", "Bob"}

(***************************************************************************)
(* Values                                                                  *)
(***************************************************************************)

\* type User struct { Name string }
User(name) == [Name |-> name]
\* var user User: the zero value.
ZeroUser == User("")

\* An int printed in decimal, as the clients put an id in the path.
ItoaChars == <<"0", "1", "2", "3", "4", "5", "6", "7", "8", "9">>
Itoa(n) == IF n < 10 THEN <<ItoaChars[n + 1]>>
           ELSE <<ItoaChars[(n \div 10) + 1], ItoaChars[(n % 10) + 1]>>

\* The {id} segments of the request paths: the ids a run can assign, an id
\* that is never assigned, two other spellings of 1, and a segment that is
\* no number.
PathSegs == {Itoa(k) : k \in 1..MaxUsers}
            \cup {<<"4", "2">>, <<"0", "1">>, <<"+", "1">>, <<"a", "b", "c">>}

\* strconv.Atoi: an optional sign, then one or more decimal digits.
IsDigit(c) == c \in {"0", "1", "2", "3", "4", "5", "6", "7", "8", "9"}
DigitVal(c) == CHOOSE d \in 0..9 : ItoaChars[d + 1] = c
RECURSIVE AtoiDigits(_, _)
AtoiDigits(s, acc) == IF s = <<>> THEN acc
                      ELSE AtoiDigits(Tail(s), acc * 10 + DigitVal(Head(s)))
Atoi(s) ==
    LET signed == s # <<>> /\ Head(s) \in {"+", "-"}
        digits == IF signed THEN Tail(s) ELSE s
    IN  IF digits = <<>> \/ \E i \in 1..Len(digits) : ~IsDigit(digits[i])
        THEN [err |-> TRUE, val |-> 0]
        ELSE [err |-> FALSE,
              val |-> IF signed /\ Head(s) = "-" THEN 0 - AtoiDigits(digits, 0)
                      ELSE AtoiDigits(digits, 0)]

\* The request bodies of POST /users: text that is no JSON, an object with
\* no name (or an empty one), an object with a name.
Bodies == {[json |-> FALSE, name |-> ""]}
          \cup {[json |-> TRUE, name |-> n] : n \in Names \cup {""}}

\* json.NewDecoder(r.Body).Decode(&user)
Decode(body) == IF body.json THEN [err |-> FALSE, user |-> User(body.name)]
                ELSE [err |-> TRUE, user |-> ZeroUser]

\* A faulty encoder: it writes the zero User.
MarshalZeroValue(u) == [err |-> FALSE, json |-> [type |-> "json", name |-> ""]]
\* json.Marshal(user): the object {"name": user.Name}; it has no error case
\* for a struct of one string.
Marshal(u) == [err |-> FALSE, json |-> [type |-> "json", name |-> u.Name]]

StatusOK == 200
StatusNoContent == 204
StatusBadRequest == 400
StatusNotFound == 404
StatusInternalServerError == 500

\* What a handler writes to its http.ResponseWriter.
Text(msg) == [type |-> "text", text |-> msg]
EmptyBody == [type |-> "empty"]
Response(status, body) == [status |-> status, body |-> body]
\* http.Error(w, msg, code)
HttpError(msg, code) == Response(code, Text(msg))

(***************************************************************************)
(* The map                                                                 *)
(***************************************************************************)

\* make(map[int]User)
EmptyMap == [k \in {} |-> ZeroUser]
\* len(m)
MapLen(m) == Cardinality(DOMAIN m)
\* v, ok := m[k]
MapLookup(m, k) == IF k \in DOMAIN m THEN [user |-> m[k], ok |-> TRUE]
                   ELSE [user |-> ZeroUser, ok |-> FALSE]
\* m[k] = v
MapAssign(m, k, v) == [j \in DOMAIN m \cup {k} |-> IF j = k THEN v ELSE m[j]]
\* A faulty delete: it leaves the map as it is.
MapDeleteNothing(m, k) == m
\* delete(m, k)
MapDelete(m, k) == [j \in DOMAIN m \ {k} |-> m[j]]

VARIABLES
    userCache,   \* var userCache = make(map[int]User)
    cacheMutex,  \* var cacheMutex sync.RWMutex
    pc,          \* where each goroutine's handler stands
    handler,     \* the handler each goroutine runs
    id,          \* the handler's id
    user,        \* the handler's user
    ok,          \* the handler's ok
    key,         \* createUser: the value of len(userCache)+1
    resp,        \* what the handler has written to w
    hist         \* history of the run, read by the properties only

vars == <<userCache, cacheMutex, pc, handler, id, user, ok, key, resp, hist>>

(***************************************************************************)
(* sync.RWMutex.  cacheMutex.w holds the goroutine that has taken the      *)
(* writer side (it has called Lock and not yet Unlock), readers the        *)
(* goroutines that hold the lock for reading, blocked the goroutines whose *)
(* RLock found a writer and that sleep until its Unlock.  A Lock that      *)
(* finds readers waits for them to leave, and RLock calls made meanwhile   *)
(* block: "a blocked Lock call excludes new readers from acquiring the     *)
(* lock".                                                                  *)
(***************************************************************************)
ZeroMutex == [w |-> {}, readers |-> {}, blocked |-> {}]

\* RLock returns at once when no writer has taken the writer side.
RLockFree(m) == m.w = {}
\* cacheMutex.RLock(), the call: p holds the read lock, or sleeps.
RLock(m, p) == IF RLockFree(m) THEN [m EXCEPT !.readers = @ \cup {p}]
               ELSE [m EXCEPT !.blocked = @ \cup {p}]
\* A faulty mutex: RUnlock does not give the lock back.
RUnlockKeeps(m, p) == m
\* cacheMutex.RUnlock()
RUnlock(m, p) == [m EXCEPT !.readers = @ \ {p}]
\* A faulty mutex: Lock does not keep the writers apart.
LockFreeNoWriterExclusion(m) == TRUE
\* Lock gets past the writers' mutex when no other writer has it.
LockFree(m) == m.w = {}
\* cacheMutex.Lock(), the call: p takes the writer side.
Lock(m, p) == [m EXCEPT !.w = {p}]
\* A faulty mutex: Lock does not wait for the readers.
LockDrainedNoWait(m) == TRUE
\* Lock returns when the readers that held the lock have left.
LockDrained(m) == m.readers = {}
\* cacheMutex.Unlock(): the sleeping readers get the lock.
Unlock(m, p) == [m EXCEPT !.w = {}, !.readers = m.blocked, !.blocked = {}]

(***************************************************************************)
(* History: what the run has done so far.  No handler reads it.            *)
(***************************************************************************)
\* The writes before a lookup say nothing of what it finds.
NoExpect == [kind |-> "any", name |-> ""]
\* The last write to the map was no insert.
NoLast == [op |-> "none", id |-> 0, name |-> ""]
\* No lookup yet.
NoRes == [user |-> ZeroUser, ok |-> FALSE]

\* reqName: the name in the body of p's create request; changed: a step of
\* p's request has changed userCache; inserted: the inserts so far (counted
\* up to MaxUsers + 1); everDeleted: a delete has run; last: the last write
\* when it was an insert; gone: the ids deleted with no insert since; acked:
\* those of them whose DELETE has answered 204; expect: what p's GET must
\* find; sections: the critical sections p's request has entered; absMap:
\* the plain map the store stands for; absRes: what p's lookup found in it;
\* valid: p's request has passed the validation of its input; over: p's
\* insert went under a key that was present; maxLen: the largest number of
\* entries so far; assigned: the keys an insert has stored under, each the
\* number of entries plus one at its store; stale: an insert has stored under
\* the id of p's DELETE after its check found the id; stmts: the statements
\* on the map p has run in its critical section.

HistInit ==
    [reqName |-> [p \in Procs |-> ""],
     changed |-> [p \in Procs |-> FALSE],
     inserted |-> 0,
     everDeleted |-> FALSE,
     last |-> NoLast,
     gone |-> {},
     acked |-> {},
     expect |-> [p \in Procs |-> NoExpect],
     sections |-> [p \in Procs |-> 0],
     valid |-> [p \in Procs |-> FALSE],
     over |-> [p \in Procs |-> FALSE],
     maxLen |-> 0,
     assigned |-> {},
     stale |-> [p \in Procs |-> FALSE],
     stmts |-> [p \in Procs |-> 0],
     absMap |-> EmptyMap,
     absRes |-> [p \in Procs |-> NoRes]]

\* What a lookup of k must find, by the writes that came before it: the name
\* of the last write when that was an insert under k; nothing when a delete
\* of k has been answered 204 and no insert came after the delete took k out.
Expectation(h, k) ==
    IF h.last.op = "insert" /\ h.last.id = k
    THEN [kind |-> "name", name |-> h.last.name]
    ELSE IF k \in h.acked THEN [kind |-> "absent", name |-> ""]
    ELSE NoExpect

\* The history after a lookup of k by p: what the plain map holds under k.
HistLookup(h, p, k) == [h EXCEPT !.absRes[p] = MapLookup(h.absMap, k),
                                 !.stmts[p] = @ + 1]

\* The history after p has got the lock: one more critical section of its
\* request, with no statement run in it yet.
HistEnter(h, p) == [h EXCEPT !.sections[p] = @ + 1, !.stmts[p] = 0]

Init ==
    /\ userCache = EmptyMap
    /\ cacheMutex = ZeroMutex
    /\ pc = [p \in Procs |-> "idle"]
    /\ handler = [p \in Procs |-> "none"]
    /\ id = [p \in Procs |-> 0]
    /\ user = [p \in Procs |-> ZeroUser]
    /\ ok = [p \in Procs |-> FALSE]
    /\ key = [p \in Procs |-> 0]
    /\ resp = [p \in Procs |-> <<>>]
    /\ hist = HistInit

(***************************************************************************)
(* getUser                                                                 *)
(***************************************************************************)

\* GET /users/{id} arrives: the id is parsed; a segment that is no integer
\* is answered 400 and the handler returns.
GetStart(p) ==
    /\ pc[p] = "idle"
    /\ \E seg \in PathSegs :
         LET a == Atoi(seg) IN
         /\ handler' = [handler EXCEPT ![p] = "get"]
         /\ IF a.err
            THEN /\ resp' = [resp EXCEPT ![p] =
                                Append(@, HttpError("invalid syntax", StatusBadRequest))]
                 /\ pc' = [pc EXCEPT ![p] = "done"]
                 /\ UNCHANGED <<id, hist>>
            ELSE /\ id' = [id EXCEPT ![p] = a.val]
                 /\ pc' = [pc EXCEPT ![p] = "g_rlock"]
                 /\ hist' = [hist EXCEPT !.valid[p] = TRUE]
                 /\ UNCHANGED resp
    /\ UNCHANGED <<userCache, cacheMutex, user, ok, key>>

\* cacheMutex.RLock()
GetRLock(p) ==
    /\ pc[p] = "g_rlock"
    /\ cacheMutex' = RLock(cacheMutex, p)
    /\ pc' = [pc EXCEPT ![p] = IF RLockFree(cacheMutex) THEN "g_read" ELSE "g_rwait"]
    /\ hist' = IF RLockFree(cacheMutex) THEN HistEnter(hist, p) ELSE hist
    /\ UNCHANGED <<userCache, handler, id, user, ok, key, resp>>

\* RLock returns after the writer's Unlock.
GetRLockWake(p) ==
    /\ pc[p] = "g_rwait"
    /\ p \in cacheMutex.readers
    /\ pc' = [pc EXCEPT ![p] = "g_read"]
    /\ hist' = HistEnter(hist, p)
    /\ UNCHANGED <<userCache, cacheMutex, handler, id, user, ok, key, resp>>

\* user, ok := userCache[id]
GetRead(p) ==
    /\ pc[p] = "g_read"
    /\ user' = [user EXCEPT ![p] = MapLookup(userCache, id[p]).user]
    /\ ok' = [ok EXCEPT ![p] = MapLookup(userCache, id[p]).ok]
    /\ hist' = [HistLookup(hist, p, id[p]) EXCEPT
                  !.expect[p] = Expectation(hist, id[p])]
    /\ pc' = [pc EXCEPT ![p] = "g_runlock"]
    /\ UNCHANGED <<userCache, cacheMutex, handler, id, key, resp>>

\* cacheMutex.RUnlock()
GetRUnlock(p) ==
    /\ pc[p] = "g_runlock"
    /\ cacheMutex' = RUnlock(cacheMutex, p)
    /\ pc' = [pc EXCEPT ![p] = "g_resp"]
    /\ UNCHANGED <<userCache, handler, id, user, ok, key, resp, hist>>

\* The answer of getUser: 404 when the id was not found, else the user as
\* JSON with 200 (500 when it cannot be marshalled).
GetResponse(found, u) ==
    IF ~found THEN HttpError("user not found", StatusNotFound)
    ELSE IF Marshal(u).err THEN HttpError("marshal", StatusInternalServerError)
    ELSE Response(StatusOK, Marshal(u).json)

GetRespond(p) ==
    /\ pc[p] = "g_resp"
    /\ resp' = [resp EXCEPT ![p] = Append(@, GetResponse(ok[p], user[p]))]
    /\ pc' = [pc EXCEPT ![p] = "done"]
    /\ UNCHANGED <<userCache, cacheMutex, handler, id, user, ok, key, hist>>

(***************************************************************************)
(* createUser                                                              *)
(***************************************************************************)

\* The insert of the plain map the store stands for: the user goes under
\* the number of entries plus one.
Insert(m, u) == MapAssign(m, MapLen(m) + 1, u)

\* The goroutines whose createUser has a user to insert and has not yet.
Inserting == {q \in Procs : pc[q] \in {"c_lock", "c_drain", "c_len", "c_store"}}

\* The goroutines whose deleteUser has found its id and has not yet deleted.
Checked == {q \in Procs : /\ pc[q] \in {"d_runlock", "d_checked", "d_drain", "d_delete"}
                          /\ ok[q]}

\* POST /users arrives: the body is decoded and the name validated; a body
\* that is no JSON and an empty name are answered 400 and the handler
\* returns.
CreateStart(p) ==
    /\ pc[p] = "idle"
    /\ \E body \in Bodies :
         LET d == Decode(body) IN
         /\ handler' = [handler EXCEPT ![p] = "create"]
         /\ IF d.err \/ d.user.Name = ""
            THEN /\ resp' = [resp EXCEPT ![p] = Append(@,
                        IF d.err THEN HttpError("invalid JSON", StatusBadRequest)
                        ELSE HttpError("Name is required", StatusBadRequest))]
                 /\ pc' = [pc EXCEPT ![p] = "done"]
                 /\ UNCHANGED <<user, hist>>
            ELSE /\ MapLen(userCache) + Cardinality(Inserting) < MaxUsers
                 /\ user' = [user EXCEPT ![p] = d.user]
                 /\ pc' = [pc EXCEPT ![p] = "c_lock"]
                 /\ hist' = [hist EXCEPT !.reqName[p] = body.name,
                                         !.valid[p] = TRUE]
                 /\ UNCHANGED resp
    /\ UNCHANGED <<userCache, cacheMutex, id, ok, key>>

\* cacheMutex.Lock()
CreateLock(p) ==
    /\ pc[p] = "c_lock"
    /\ LockFree(cacheMutex)
    /\ cacheMutex' = Lock(cacheMutex, p)
    /\ pc' = [pc EXCEPT ![p] = IF LockDrained(cacheMutex) THEN "c_len" ELSE "c_drain"]
    /\ hist' = IF LockDrained(cacheMutex) THEN HistEnter(hist, p) ELSE hist
    /\ UNCHANGED <<userCache, handler, id, user, ok, key, resp>>

\* Lock returns after the last reader's RUnlock.
CreateLockWake(p) ==
    /\ pc[p] = "c_drain"
    /\ LockDrained(cacheMutex)
    /\ pc' = [pc EXCEPT ![p] = "c_len"]
    /\ hist' = HistEnter(hist, p)
    /\ UNCHANGED <<userCache, cacheMutex, handler, id, user, ok, key, resp>>

\* A faulty id: the count itself.
NewKeyOffByOne(m) == MapLen(m)
\* The id createUser stores under: len(userCache)+1.
NewKey(m) == MapLen(m) + 1

\* userCache[len(userCache)+1] = user, the index: its value is computed first.
CreateLen(p) ==
    /\ pc[p] = "c_len"
    /\ key' = [key EXCEPT ![p] = NewKey(userCache)]
    /\ pc' = [pc EXCEPT ![p] = "c_store"]
    /\ UNCHANGED <<userCache, cacheMutex, handler, id, user, ok, resp, hist>>

\* userCache[len(userCache)+1] = user, the assignment.
CreateStore(p) ==
    /\ pc[p] = "c_store"
    /\ userCache' = MapAssign(userCache, key[p], user[p])
    /\ hist' = [hist EXCEPT
                  !.changed[p] = @ \/ userCache' # userCache,
                  !.inserted = IF @ <= MaxUsers THEN @ + 1 ELSE @,
                  !.last = [op |-> "insert", id |-> key[p], name |-> hist.reqName[p]],
                  !.gone = {},
                  !.acked = {},
                  !.absMap = Insert(@, User(hist.reqName[p])),
                  !.over[p] = key[p] \in DOMAIN userCache,
                  !.maxLen = IF MapLen(userCache') > @ THEN MapLen(userCache') ELSE @,
                  !.assigned = IF key[p] = MapLen(userCache) + 1
                               THEN @ \cup {key[p]} ELSE @,
                  !.stale = [q \in Procs |->
                               @[q] \/ (q \in Checked /\ id[q] = key[p])],
                  !.stmts[p] = @ + 1]
    /\ pc' = [pc EXCEPT ![p] = "c_unlock"]
    /\ UNCHANGED <<cacheMutex, handler, id, user, ok, key, resp>>

\* cacheMutex.Unlock()
CreateUnlock(p) ==
    /\ pc[p] = "c_unlock"
    /\ cacheMutex' = Unlock(cacheMutex, p)
    /\ pc' = [pc EXCEPT ![p] = "c_resp"]
    /\ UNCHANGED <<userCache, handler, id, user, ok, key, resp, hist>>

\* The answer of createUser after the insert.
CreateResponse == Response(StatusNoContent, EmptyBody)

\* w.WriteHeader(http.StatusNoContent)
CreateRespond(p) ==
    /\ pc[p] = "c_resp"
    /\ resp' = [resp EXCEPT ![p] = Append(@, CreateResponse)]
    /\ pc' = [pc EXCEPT ![p] = "done"]
    /\ UNCHANGED <<userCache, cacheMutex, handler, id, user, ok, key, hist>>

(***************************************************************************)
(* deleteUser                                                              *)
(***************************************************************************)

\* DELETE /users/{id} arrives: the id is parsed; a segment that is no
\* integer is answered 400 and the handler returns.
DeleteStart(p) ==
    /\ pc[p] = "idle"
    /\ \E seg \in PathSegs :
         LET a == Atoi(seg) IN
         /\ handler' = [handler EXCEPT ![p] = "delete"]
         /\ IF a.err
            THEN /\ resp' = [resp EXCEPT ![p] =
                                Append(@, HttpError("invalid syntax", StatusBadRequest))]
                 /\ pc' = [pc EXCEPT ![p] = "done"]
                 /\ UNCHANGED <<id, hist>>
            ELSE /\ id' = [id EXCEPT ![p] = a.val]
                 /\ pc' = [pc EXCEPT ![p] = "d_rlock"]
                 /\ hist' = [hist EXCEPT !.valid[p] = TRUE]
                 /\ UNCHANGED resp
    /\ UNCHANGED <<userCache, cacheMutex, user, ok, key>>

\* cacheMutex.RLock()
DeleteRLock(p) ==
    /\ pc[p] = "d_rlock"
    /\ cacheMutex' = RLock(cacheMutex, p)
    /\ pc' = [pc EXCEPT ![p] = IF RLockFree(cacheMutex) THEN "d_check" ELSE "d_rwait"]
    /\ hist' = IF RLockFree(cacheMutex) THEN HistEnter(hist, p) ELSE hist
    /\ UNCHANGED <<userCache, handler, id, user, ok, key, resp>>

\* RLock returns after the writer's Unlock.
DeleteRLockWake(p) ==
    /\ pc[p] = "d_rwait"
    /\ p \in cacheMutex.readers
    /\ pc' = [pc EXCEPT ![p] = "d_check"]
    /\ hist' = HistEnter(hist, p)
    /\ UNCHANGED <<userCache, cacheMutex, handler, id, user, ok, key, resp>>

\* _, ok := userCache[id]
DeleteCheck(p) ==
    /\ pc[p] = "d_check"
    /\ ok' = [ok EXCEPT ![p] = MapLookup(userCache, id[p]).ok]
    /\ hist' = HistLookup(hist, p, id[p])
    /\ pc' = [pc EXCEPT ![p] = "d_runlock"]
    /\ UNCHANGED <<userCache, cacheMutex, handler, id, user, key, resp>>

\* cacheMutex.RUnlock()
DeleteRUnlock(p) ==
    /\ pc[p] = "d_runlock"
    /\ cacheMutex' = RUnlock(cacheMutex, p)
    /\ pc' = [pc EXCEPT ![p] = "d_checked"]
    /\ UNCHANGED <<userCache, handler, id, user, ok, key, resp, hist>>

\* A faulty check: the early return is missing.
DeleteGoesOnAlways(found) == TRUE
\* if !ok: deleteUser goes on to the delete only when the check found the id.
DeleteGoesOn(found) == found

\* The answer of deleteUser when the check did not find the id.
DeleteNotFoundResponse == HttpError("user not found", StatusBadRequest)

\* if !ok { http.Error(...); return }
DeleteNotFound(p) ==
    /\ pc[p] = "d_checked"
    /\ ~DeleteGoesOn(ok[p])
    /\ resp' = [resp EXCEPT ![p] = Append(@, DeleteNotFoundResponse)]
    /\ pc' = [pc EXCEPT ![p] = "done"]
    /\ UNCHANGED <<userCache, cacheMutex, handler, id, user, ok, key, hist>>

\* cacheMutex.Lock()
DeleteLock(p) ==
    /\ pc[p] = "d_checked"
    /\ DeleteGoesOn(ok[p])
    /\ LockFree(cacheMutex)
    /\ cacheMutex' = Lock(cacheMutex, p)
    /\ pc' = [pc EXCEPT ![p] = IF LockDrained(cacheMutex) THEN "d_delete" ELSE "d_drain"]
    /\ hist' = IF LockDrained(cacheMutex) THEN HistEnter(hist, p) ELSE hist
    /\ UNCHANGED <<userCache, handler, id, user, ok, key, resp>>

\* Lock returns after the last reader's RUnlock.
DeleteLockWake(p) ==
    /\ pc[p] = "d_drain"
    /\ LockDrained(cacheMutex)
    /\ pc' = [pc EXCEPT ![p] = "d_delete"]
    /\ hist' = HistEnter(hist, p)
    /\ UNCHANGED <<userCache, cacheMutex, handler, id, user, ok, key, resp>>

\* delete(userCache, id)
DeleteDelete(p) ==
    /\ pc[p] = "d_delete"
    /\ userCache' = MapDelete(userCache, id[p])
    /\ hist' = [hist EXCEPT
                  !.changed[p] = @ \/ userCache' # userCache,
                  !.everDeleted = TRUE,
                  !.last = NoLast,
                  !.gone = @ \cup {id[p]},
                  !.absMap = MapDelete(@, id[p]),
                  !.stmts[p] = @ + 1]
    /\ pc' = [pc EXCEPT ![p] = "d_unlock"]
    /\ UNCHANGED <<cacheMutex, handler, id, user, ok, key, resp>>

\* cacheMutex.Unlock()
DeleteUnlock(p) ==
    /\ pc[p] = "d_unlock"
    /\ cacheMutex' = Unlock(cacheMutex, p)
    /\ pc' = [pc EXCEPT ![p] = "d_resp"]
    /\ UNCHANGED <<userCache, handler, id, user, ok, key, resp, hist>>

\* A faulty answer: the status of the not-found case.
DeleteResponseBadRequest == Response(StatusBadRequest, EmptyBody)
\* The answer of deleteUser after the delete.
DeleteResponse == Response(StatusNoContent, EmptyBody)

\* w.WriteHeader(http.StatusNoContent)
DeleteRespond(p) ==
    /\ pc[p] = "d_resp"
    /\ resp' = [resp EXCEPT ![p] = Append(@, DeleteResponse)]
    /\ hist' = [hist EXCEPT !.acked = IF id[p] \in hist.gone THEN @ \cup {id[p]} ELSE @]
    /\ pc' = [pc EXCEPT ![p] = "done"]
    /\ UNCHANGED <<userCache, cacheMutex, handler, id, user, ok, key>>

(***************************************************************************)
(* The server                                                              *)
(***************************************************************************)

\* The handler returns; its goroutine is free for the next request.
Return(p) ==
    /\ pc[p] = "done"
    /\ pc' = [pc EXCEPT ![p] = "idle"]
    /\ handler' = [handler EXCEPT ![p] = "none"]
    /\ id' = [id EXCEPT ![p] = 0]
    /\ user' = [user EXCEPT ![p] = ZeroUser]
    /\ ok' = [ok EXCEPT ![p] = FALSE]
    /\ key' = [key EXCEPT ![p] = 0]
    /\ resp' = [resp EXCEPT ![p] = <<>>]
    /\ hist' = [hist EXCEPT !.reqName[p] = "", !.changed[p] = FALSE,
                            !.expect[p] = NoExpect, !.sections[p] = 0,
                            !.valid[p] = FALSE, !.over[p] = FALSE,
                            !.stale[p] = FALSE, !.stmts[p] = 0,
                            !.absRes[p] = NoRes]
    /\ UNCHANGED <<userCache, cacheMutex>>

\* Goroutine p is between RLock's return and RUnlock.
InRead(p) == pc[p] \in {"g_read", "g_runlock", "d_check", "d_runlock"}
\* Goroutine p is between Lock's return and Unlock.
InWrite(p) == pc[p] \in {"c_len", "c_store", "c_unlock", "d_delete", "d_unlock"}

\* The steps of a handler that has started.
Step(p) ==
    \/ GetRLock(p) \/ GetRLockWake(p) \/ GetRead(p) \/ GetRUnlock(p) \/ GetRespond(p)
    \/ CreateLock(p) \/ CreateLockWake(p) \/ CreateLen(p) \/ CreateStore(p)
    \/ CreateUnlock(p) \/ CreateRespond(p)
    \/ DeleteRLock(p) \/ DeleteRLockWake(p) \/ DeleteCheck(p) \/ DeleteRUnlock(p)
    \/ DeleteNotFound(p) \/ DeleteLock(p) \/ DeleteLockWake(p) \/ DeleteDelete(p)
    \/ DeleteUnlock(p) \/ DeleteRespond(p)
    \/ Return(p)

Next == \E p \in Procs : GetStart(p) \/ CreateStart(p) \/ DeleteStart(p) \/ Step(p)

Spec == Init /\ [][Next]_vars

\* The scheduler runs every goroutine that can take a step, and the mutex
\* hands the writer side to a goroutine that keeps asking for it (sync.Mutex
\* gives a waiter that has waited long the lock directly).
Fairness ==
    \A p \in Procs : /\ WF_vars(Step(p))
                     /\ SF_vars(CreateLock(p) \/ DeleteLock(p))

FairSpec == Spec /\ Fairness

(***************************************************************************)
(* Properties                                                              *)
(***************************************************************************)

\* A request is being handled on goroutine p.
Started(p) == pc[p] \notin {"idle", "done"}
\* The handler on goroutine p has answered.
Responded(p) == pc[p] = "done"

\* The create request handled on goroutine p passed the validation.
ValidCreate(p) == handler[p] = "create" /\ hist.reqName[p] # ""

\* C1: readers-writer exclusion.  While a handler is inside a write critical
\* section (the insert of createUser, the delete of deleteUser), no other
\* handler is inside a critical section, read or write; so handlers are
\* inside read critical sections together only when no writer is inside.
C1_Exclusion ==
    \A p \in Procs : \A q \in Procs \ {p} :
        InWrite(p) => ~InWrite(q) /\ ~InRead(q)

\* A writer is inside while another handler's RLock waits for it.
C1_Witness ==
    \E p \in Procs : \E q \in Procs \ {p} :
        InWrite(p) /\ pc[q] \in {"g_rwait", "d_rwait"}

\* C2: concurrent valid creates against the empty store, no delete: every
\* insert made so far has added an entry (no two creates used one id), so
\* when M creates have completed the store holds M entries; and each create
\* answers 204.
C2_ConcurrentCreates ==
    ~hist.everDeleted =>
        /\ MapLen(userCache) = hist.inserted
        /\ \A p \in Procs :
             ValidCreate(p) /\ Responded(p) => resp[p] = <<CreateResponse>>

\* Two creates were under way together, both have inserted, and the store
\* holds two entries.
C2_Witness ==
    /\ ~hist.everDeleted
    /\ MapLen(userCache) = 2
    /\ \E p \in Procs : \E q \in Procs \ {p} : pc[p] = "c_resp" /\ pc[q] = "c_resp"

\* C3: from the empty store and with no delete, the k-th create stores its
\* record under id k: after N inserts the keys are exactly 1..N, and the
\* insert that comes next goes under N+1.
C3_SequentialIds ==
    ~hist.everDeleted =>
        /\ DOMAIN userCache = 1..hist.inserted
        /\ \A p \in Procs : pc[p] = "c_store" => key[p] = hist.inserted + 1

\* Creates run one after another have filled the store: the last one has
\* answered and nothing else is under way.
C3_Witness ==
    /\ ~hist.everDeleted
    /\ hist.inserted = MaxUsers
    /\ DOMAIN userCache = 1..MaxUsers
    /\ \E p \in Procs :
         /\ ValidCreate(p) /\ Responded(p)
         /\ \A q \in Procs \ {p} : pc[q] = "idle"

\* The answer of the request handled on goroutine p, once it has one.
Answer(p) == resp[p][1]

\* C4: round trip.  When the last write to the map before a GET's lookup of
\* id i is the insert of a create with a (non-empty) name under i, that is
\* when no other create or delete has taken effect since, the GET answers 200
\* with a record whose name is the name of the create request.
C4_RoundTrip ==
    \A p \in Procs :
        handler[p] = "get" /\ Responded(p) /\ hist.expect[p].kind = "name" =>
            resp[p] = <<Response(StatusOK,
                                 [type |-> "json", name |-> hist.expect[p].name])>>

\* A create has answered 204 and a GET of the id it stored under has
\* answered with its name.
C4_Witness ==
    \E p \in Procs : \E q \in Procs \ {p} :
        /\ handler[p] = "get" /\ Responded(p)
        /\ hist.expect[p].kind = "name" /\ hist.expect[p].name \in Names
        /\ Answer(p).status = StatusOK
        /\ ValidCreate(q) /\ Responded(q) /\ Answer(q).status = StatusNoContent

\* C5: not found after delete.  Once a DELETE of an id has answered 204, a
\* GET of that id whose lookup comes later (so every GET that starts later)
\* answers 404 "user not found", provided no create has taken effect
\* between the delete taking the id out of the map and the lookup.
C5_NotFoundAfterDelete ==
    \A p \in Procs :
        handler[p] = "get" /\ Responded(p) /\ hist.expect[p].kind = "absent" =>
            resp[p] = <<HttpError("user not found", StatusNotFound)>>

\* A DELETE has answered 204 and a GET of its id has answered 404.
C5_Witness ==
    \E p \in Procs : \E q \in Procs \ {p} :
        /\ handler[p] = "get" /\ Responded(p)
        /\ hist.expect[p].kind = "absent"
        /\ Answer(p).status = StatusNotFound
        /\ handler[q] = "delete" /\ Responded(q) /\ id[q] = id[p]
        /\ Answer(q).status = StatusNoContent

\* The existence check of the DELETE handled on goroutine p has found the
\* id absent.
CheckedAbsent(p) ==
    /\ handler[p] = "delete"
    /\ hist.sections[p] >= 1
    /\ pc[p] # "d_check"
    /\ ~ok[p]

\* C6: deleting an absent id is a no-op.  A DELETE whose existence check
\* found the id absent never gets to the write critical section (its only
\* critical section is the check), its request changes nothing in the store,
\* and its answer is an error, not 204.
C6_DeleteAbsentNoOp ==
    \A p \in Procs :
        CheckedAbsent(p) =>
            /\ pc[p] \in {"d_runlock", "d_checked", "done"}
            /\ hist.sections[p] = 1
            /\ ~hist.changed[p]
            /\ Responded(p) =>
                 /\ Len(resp[p]) = 1
                 /\ Answer(p).status >= StatusBadRequest
                 /\ Answer(p).status # StatusNoContent

\* A DELETE of an absent id has been answered.
C6_Witness ==
    \E p \in Procs : CheckedAbsent(p) /\ Responded(p) /\ id[p] \notin DOMAIN userCache

\* C7: a DELETE of an id that is not in the store is answered 404, as a GET
\* of an absent id is.
C7_DeleteAbsentIs404 ==
    \A p \in Procs :
        CheckedAbsent(p) /\ Responded(p) => Answer(p).status = StatusNotFound

\* C8: no state change on error or read.  A request answered with an error
\* status has changed nothing in the store, and neither has a GET, at any
\* point of its handling; so a request that has changed the store is a create
\* or a delete, and its answer is 204.
C8_NoChangeOnErrorOrRead ==
    \A p \in Procs :
        /\ handler[p] = "get" => ~hist.changed[p]
        /\ Responded(p) /\ Answer(p).status # StatusNoContent => ~hist.changed[p]
        /\ hist.changed[p] /\ Responded(p) =>
             handler[p] \in {"create", "delete"} /\ Answer(p).status = StatusNoContent

\* Requests of each kind have been answered with an error while the store
\* holds an entry: an empty name, an id that is no integer, an absent id.
C8_Witness ==
    /\ userCache # EmptyMap
    /\ \E p \in Procs : \E q \in Procs \ {p} :
         /\ Responded(p) /\ Responded(q)
         /\ Answer(p).status = StatusBadRequest
         /\ handler[p] \in {"create", "delete"}
         /\ handler[q] = "get" /\ Answer(q).status = StatusNotFound

\* C9: linearizability of the store operations.  hist.absMap is a plain map
\* on which each insert, delete and lookup is applied in one step, at the
\* moment the handler's map access takes place inside its critical section
\* (so between the operation's start and its end): the insert as
\* Insert(absMap, user), with its id read and its record stored at once.  The
\* store equals that map in every state, and every lookup has returned what
\* that map held at the lookup.
C9_Linearizable ==
    /\ userCache = hist.absMap
    /\ \A p \in Procs :
         /\ ok[p] = hist.absRes[p].ok
         /\ handler[p] = "get" => user[p] = hist.absRes[p].user

\* A lookup has found a record, after inserts and a delete, while a writer
\* of another request waits for the lock.
C9_Witness ==
    /\ hist.everDeleted
    /\ \E p \in Procs : \E q \in Procs \ {p} :
         /\ handler[p] = "get" /\ pc[p] = "g_runlock" /\ ok[p]
         /\ user[p].Name \in Names
         /\ pc[q] \in {"c_drain", "d_drain"}

\* C10: requests run to completion.  Under fair scheduling of the goroutines
\* and of the mutex every request that is being handled gets its answer; a
\* handler has written one answer when it is done and none before; and as
\* long as a request is being handled some handler can take a step (no
\* deadlock).
C10_RunToCompletion ==
    /\ \A p \in Procs : Started(p) ~> Responded(p)
    /\ [](\A p \in Procs : Len(resp[p]) = IF Responded(p) THEN 1 ELSE 0)
    /\ []((\E p \in Procs : Started(p)) => ENABLED (\E p \in Procs : Step(p)))

\* A create waits for the readers to leave while a reader holds the lock.
C10_Witness ==
    \E p \in Procs : \E q \in Procs \ {p} :
        pc[p] = "c_drain" /\ InRead(q) /\ q \in cacheMutex.readers

\* C11, as claimed: a request that has passed the validation has entered
\* exactly one critical section when its handler answers, and no request
\* enters more than one.
C11_OneSectionPerRequest ==
    \A p \in Procs :
        /\ hist.sections[p] <= 1
        /\ Responded(p) /\ hist.valid[p] => hist.sections[p] = 1

\* The critical sections a validated request has entered when it is
\* answered: getUser and createUser one; deleteUser one, the check, when the
\* id is absent, and two, the check and then the delete, when it is present.
SectionsOf(p) == IF handler[p] = "delete" /\ ok[p] THEN 2 ELSE 1

\* C11, amended: getUser and createUser enter exactly one critical section
\* per validated request; deleteUser enters one when its check finds the id
\* absent and two when it finds it present; a request that fails the
\* validation enters none.
C11_SectionsPerRequest ==
    \A p \in Procs :
        /\ hist.sections[p] <= SectionsOf(p)
        /\ ~hist.valid[p] => hist.sections[p] = 0
        /\ Responded(p) /\ hist.valid[p] => hist.sections[p] = SectionsOf(p)

\* A DELETE of a present id has been answered after two critical sections,
\* beside a GET answered after one.
C11_Witness ==
    \E p \in Procs : \E q \in Procs \ {p} :
        /\ handler[p] = "delete" /\ Responded(p) /\ hist.sections[p] = 2
        /\ handler[q] = "get" /\ Responded(q) /\ hist.sections[q] = 1

\* C12: id collision after a delete.  Every insert stores under the number
\* of entries plus one; when that key is present (which takes a delete
\* before it) the insert replaces the record under it by its own and the
\* number of entries stays as it was, so the earlier record is lost and the
\* store does not grow, and this holds of every further insert while the
\* key stays present; when the key is absent the number of entries grows by
\* one.  The create is answered 204 in both cases.
C12_CollisionOverwrites ==
    /\ [][\A p \in Procs :
            pc[p] = "c_store" /\ pc'[p] = "c_unlock" =>
                /\ key[p] = MapLen(userCache) + 1
                /\ userCache'[key[p]] = user[p]
                /\ \A k \in DOMAIN userCache \ {key[p]} :
                       k \in DOMAIN userCache' /\ userCache'[k] = userCache[k]
                /\ IF key[p] \in DOMAIN userCache
                   THEN /\ hist.everDeleted
                        /\ MapLen(userCache') = MapLen(userCache)
                   ELSE MapLen(userCache') = MapLen(userCache) + 1]_vars
    /\ [](\A p \in Procs :
            ValidCreate(p) /\ Responded(p) => resp[p] = <<CreateResponse>>)

\* After create, create, delete of id 1, a create has stored under id 2,
\* which was present, and has been answered 204: one entry is left, under
\* id 2, and it is the record of this last create.
C12_Witness ==
    \E p \in Procs :
        /\ ValidCreate(p) /\ Responded(p) /\ Answer(p).status = StatusNoContent
        /\ hist.over[p] /\ hist.everDeleted
        /\ key[p] = 2
        /\ hist.last = [op |-> "insert", id |-> 2, name |-> hist.reqName[p]]
        /\ DOMAIN userCache = {2} /\ userCache[2] = user[p]

\* C13, as claimed: entries are immutable while present.  No step changes
\* the record under an id that stays in the store, and an id leaves the
\* store only in the delete of a deleteUser for that id, which is then
\* answered 204.
C13_EntriesImmutable ==
    [][/\ \A k \in DOMAIN userCache :
            k \in DOMAIN userCache' => userCache'[k] = userCache[k]
       /\ \A k \in DOMAIN userCache \ DOMAIN userCache' :
            \E p \in Procs : /\ handler[p] = "delete" /\ id[p] = k
                             /\ pc[p] = "d_delete" /\ pc'[p] = "d_unlock"]_vars

\* C14: the range of the keys.  Every key of the store is an integer from 1
\* up to the largest number of entries the store has had, which is at most
\* the number of inserts completed; every key was stored by an insert that
\* computed it as the number of entries plus one; and the key a create is
\* about to store under is that number whatever its request said, so no
\* request chooses its key.
C14_KeyRange ==
    /\ \A k \in DOMAIN userCache :
          /\ k \in Int
          /\ 1 <= k /\ k <= hist.maxLen
          /\ k \in hist.assigned
    /\ MapLen(userCache) <= hist.maxLen
    /\ hist.maxLen <= hist.inserted
    /\ \A p \in Procs : pc[p] = "c_store" => key[p] = MapLen(userCache) + 1

\* Three inserts and a delete have run: the store has had two entries and
\* holds one, under key 2, while another create is about to store under
\* key 2 again.
C14_Witness ==
    /\ hist.inserted > hist.maxLen
    /\ hist.maxLen > MapLen(userCache)
    /\ DOMAIN userCache = {hist.maxLen}
    /\ \E p \in Procs : pc[p] = "c_store" /\ key[p] \in DOMAIN userCache

\* C15: the check and the delete of deleteUser are not one atomic step, and
\* that is tolerated.  A deleteUser whose check found the id is answered 204
\* whatever happened to the id since; its delete can always run, takes the
\* id out when it is still there and leaves the store as it is when another
\* delete has taken it out meanwhile.
C15_CheckThenDelete ==
    /\ [][\A p \in Procs :
            pc[p] = "d_delete" /\ pc'[p] = "d_unlock" =>
                /\ DOMAIN userCache' = DOMAIN userCache \ {id[p]}
                /\ \A k \in DOMAIN userCache' : userCache'[k] = userCache[k]
                /\ id[p] \notin DOMAIN userCache => userCache' = userCache]_vars
    /\ [](\A p \in Procs :
            /\ pc[p] = "d_delete" => ENABLED DeleteDelete(p)
            /\ handler[p] = "delete" /\ ok[p] /\ Responded(p) =>
                  /\ Len(resp[p]) = 1
                  /\ Answer(p).status = StatusNoContent)

\* Two DELETEs of the one id ever inserted have both found it in their check
\* and have both been answered 204; one of them took it out, the delete of
\* the other found it gone and changed nothing.
C15_Witness ==
    \E p \in Procs : \E q \in Procs \ {p} :
        /\ hist.inserted = 1
        /\ handler[p] = "delete" /\ handler[q] = "delete" /\ id[p] = id[q]
        /\ ok[p] /\ ok[q]
        /\ Responded(p) /\ Answer(p).status = StatusNoContent
        /\ Responded(q) /\ Answer(q).status = StatusNoContent
        /\ hist.changed[p] /\ ~hist.changed[q]
        /\ userCache = EmptyMap

\* C16, as claimed: a DELETE answered 204 removes only the record its own
\* check saw.  When a create has stored under the id after the check of a
\* deleteUser found the id, the delete of that deleteUser takes no record
\* out of the store.
C16_DeletesOnlyChecked ==
    \A p \in Procs :
        /\ handler[p] = "delete" /\ Responded(p)
        /\ Answer(p).status = StatusNoContent
        /\ hist.stale[p]
        => ~hist.changed[p]

\* Goroutine p has the lock for reading: its RLock has been let in.
HoldsRead(p) == p \in cacheMutex.readers
\* Goroutine p has the lock for writing: it has taken the writer side and
\* the readers have left.
HoldsWrite(p) == cacheMutex.w = {p} /\ cacheMutex.readers = {}
\* Goroutine p is about to call RLock, or sleeps inside it.
WaitsRead(p) ==
    \/ pc[p] \in {"g_rlock", "d_rlock"}
    \/ pc[p] \in {"g_rwait", "d_rwait"} /\ p \in cacheMutex.blocked
\* Goroutine p is about to call Lock, or waits inside it for the readers to
\* leave.
WaitsWrite(p) ==
    \/ pc[p] = "c_lock"
    \/ pc[p] = "d_checked" /\ DeleteGoesOn(ok[p])
    \/ pc[p] \in {"c_drain", "d_drain"} /\ cacheMutex.readers # {}

\* C17: no hold-and-wait on cacheMutex.  A handler that waits for the lock
\* has it in neither mode (deleteUser has given the read lock back before it
\* asks for the write lock); a handler with no request, one that has left
\* its critical section and one that has answered has it in neither mode
\* and does not sleep in it; a handler has the lock only inside a critical
\* section of its own, runs at most one statement on the map there, and is
\* about to release the lock once that statement has run.
C17_NoHoldAndWait ==
    \A p \in Procs :
        /\ WaitsRead(p) \/ WaitsWrite(p) => ~HoldsRead(p) /\ ~HoldsWrite(p)
        /\ pc[p] \in {"idle", "done", "g_resp", "c_resp", "d_resp", "d_checked"} =>
              /\ ~HoldsRead(p) /\ cacheMutex.w # {p}
              /\ p \notin cacheMutex.blocked
        /\ HoldsRead(p) => pc[p] \in {"g_rwait", "g_read", "g_runlock",
                                      "d_rwait", "d_check", "d_runlock"}
        /\ cacheMutex.w = {p} => pc[p] \in {"c_drain", "c_len", "c_store", "c_unlock",
                                            "d_drain", "d_delete", "d_unlock"}
        /\ hist.stmts[p] <= 1
        /\ hist.stmts[p] = 1 /\ (InRead(p) \/ InWrite(p)) =>
              pc[p] \in {"g_runlock", "d_runlock", "c_unlock", "d_unlock"}
        /\ pc[p] \in {"g_runlock", "d_runlock"} => HoldsRead(p) /\ hist.stmts[p] = 1
        /\ pc[p] \in {"c_unlock", "d_unlock"} => HoldsWrite(p) /\ hist.stmts[p] = 1

\* A deleteUser that found its id has asked for the write lock and waits for
\* a getUser to leave its read critical section; it has given its own read
\* lock back, and the getUser has run its one statement on the map.
C17_Witness ==
    \E p \in Procs : \E q \in Procs \ {p} :
        /\ pc[p] = "d_drain" /\ WaitsWrite(p) /\ hist.sections[p] = 1
        /\ ~HoldsRead(p) /\ ~HoldsWrite(p)
        /\ pc[q] = "g_runlock" /\ HoldsRead(q) /\ hist.stmts[q] = 1
====
